---- MODULE Spec2Model ----
(***************************************************************************)
(* benchci: run Go benchmarks at a baseline revision, at the latest        *)
(* release tag and at HEAD, compare the measurements and report a          *)
(* regression.  The module models run() of the current entry point step by *)
(* step (one action per external call: a hard reset of the worktree, one   *)
(* benchmark invocation, the tag lookup), and its pure helpers as          *)
(* operators.                                                              *)
(*                                                                         *)
(* Strings the code inspects are sequences: a version string or constraint *)
(* is a sequence of one-character strings, a metric-selection string is a  *)
(* sequence of lexemes ("ns/op", "B/op", ",", and anything else).  A       *)
(* float64 threshold is an integer number of percent; a float64 ratio is a *)
(* record holding an exact fraction, or one of the IEEE values +Inf, -Inf, *)
(* NaN that a division by zero produces.                                   *)
(***************************************************************************)
EXTENDS Integers, Sequences, FiniteSets, TLC

\* ------------------------------------------------------------------ bounds

\* number of benchmarks in the configured list
NumBenchmarks == 2

\* longest list of results handed to showRatio on its own
MaxResults == 2

\* ------------------------------------------------------------- sequences

Nil == "nil"

Range(s) == {s[k] : k \in 1..Len(s)}

\* s with its first n elements removed
Drop(s, n) == SubSeq(s, n + 1, Len(s))

\* strings.HasPrefix
HasPrefix(s, p) == Len(s) >= Len(p) /\ SubSeq(s, 1, Len(p)) = p

\* strings.TrimLeft(s, cutset): drop leading elements while they are in cutset
RECURSIVE TrimLeft(_, _)
TrimLeft(s, cutset) ==
    IF s # <<>> /\ Head(s) \in cutset THEN TrimLeft(Tail(s), cutset) ELSE s

RECURSIVE TrimRight(_, _)
TrimRight(s, cutset) ==
    IF s # <<>> /\ s[Len(s)] \in cutset
    THEN TrimRight(SubSeq(s, 1, Len(s) - 1), cutset)
    ELSE s

\* strings.TrimSpace (the only white space of the model is " ")
TrimSpace(s) == TrimRight(TrimLeft(s, {" "}), {" "})

\* index of the first element of s equal to c, 0 when there is none
RECURSIVE IndexFrom(_, _, _)
IndexFrom(s, c, k) ==
    IF k > Len(s) THEN 0 ELSE IF s[k] = c THEN k ELSE IndexFrom(s, c, k + 1)

Index(s, c) == IndexFrom(s, c, 1)

\* strings.Split(s, sep) for a one-element separator: always at least one piece
RECURSIVE Split(_, _)
Split(s, sep) ==
    LET k == Index(s, sep) IN
    IF k = 0 THEN <<s>>
    ELSE <<SubSeq(s, 1, k - 1)>> \o Split(Drop(s, k), sep)

\* strings.SplitN(s, sep, n): at most n pieces, the last one unsplit
RECURSIVE SplitN(_, _, _)
SplitN(s, sep, n) ==
    LET k == Index(s, sep) IN
    IF n <= 1 \/ k = 0 THEN <<s>>
    ELSE <<SubSeq(s, 1, k - 1)>> \o SplitN(Drop(s, k), sep, n - 1)

\* ----------------------------------------------------- semantic versions

Digits == {"0", "1", "2", "3", "4", "5", "6", "7", "8", "9"}

DigitVal(c) ==
    CASE c = "0" -> 0 [] c = "1" -> 1 [] c = "2" -> 2 [] c = "3" -> 3
      [] c = "4" -> 4 [] c = "5" -> 5 [] c = "6" -> 6 [] c = "7" -> 7
      [] c = "8" -> 8 [] c = "9" -> 9

\* strconv.ParseUint of a non-empty sequence of digits
RECURSIVE ParseUint(_)
ParseUint(s) ==
    IF Len(s) = 1 THEN DigitVal(s[1])
    ELSE 10 * ParseUint(SubSeq(s, 1, Len(s) - 1)) + DigitVal(s[Len(s)])

\* a version number field semver accepts: digits only, no leading zero
IsNumeric(p) ==
    /\ p # <<>>
    /\ Range(p) \subseteq Digits
    /\ ~(Len(p) > 1 /\ p[1] = "0")

\* the zero value semver.Make returns next to an error
ZeroVersion == [Major |-> 0, Minor |-> 0, Patch |-> 0]

\* mutant: a text that is no version keeps the fields that are numbers
MakeKeepingFields(s) ==
    LET parts == SplitN(s, ".", 3)
        Field(k) == IF s # <<>> /\ Len(parts) >= k /\ IsNumeric(parts[k])
                    THEN ParseUint(parts[k]) ELSE 0
    IN [err |-> s = <<>> \/ Len(parts) # 3
                \/ ~IsNumeric(parts[1]) \/ ~IsNumeric(parts[2]) \/ ~IsNumeric(parts[3]),
        v |-> [Major |-> Field(1), Minor |-> Field(2), Patch |-> Field(3)]]

\* semver.Make: [err, v].  The alphabet of the model has neither "-" nor "+",
\* so a version has no pre-release or build part.
Make(s) ==
    LET parts == SplitN(s, ".", 3) IN
    IF s = <<>> \/ Len(parts) # 3
       \/ ~IsNumeric(parts[1]) \/ ~IsNumeric(parts[2]) \/ ~IsNumeric(parts[3])
    THEN [err |-> TRUE, v |-> ZeroVersion]
    ELSE [err |-> FALSE,
          v |-> [Major |-> ParseUint(parts[1]),
                 Minor |-> ParseUint(parts[2]),
                 Patch |-> ParseUint(parts[3])]]

\* semver.Version.Compare: -1, 0 or 1
VersionCompare(v, o) ==
    IF v.Major # o.Major THEN (IF v.Major > o.Major THEN 1 ELSE -1)
    ELSE IF v.Minor # o.Minor THEN (IF v.Minor > o.Minor THEN 1 ELSE -1)
    ELSE IF v.Patch # o.Patch THEN (IF v.Patch > o.Patch THEN 1 ELSE -1)
    ELSE 0

\* mutant: greater than holds of equal versions too
GTOrEqual(v, o) == VersionCompare(v, o) >= 0

GT(v, o) == VersionCompare(v, o) = 1
GTE(v, o) == VersionCompare(v, o) >= 0
Equals(v, o) == VersionCompare(v, o) = 0

tagVersionPrefix == "v"

trimTagVersion(tagName) == TrimLeft(tagName, {tagVersionPrefix})

versionRequired(required, tag) ==
    IF required = <<>> THEN TRUE
    ELSE
        LET req == TrimSpace(required)
            tagVer == Make(trimTagVersion(tag)).v
        IN
        IF HasPrefix(req, <<">", "=">>)
        THEN GTE(tagVer, Make(trimTagVersion(TrimLeft(req, {">", "="}))).v)
        ELSE IF HasPrefix(req, <<">">>)
        THEN GT(tagVer, Make(trimTagVersion(TrimLeft(req, {">"}))).v)
        ELSE Equals(tagVer, Make(trimTagVersion(req)).v)

\* getLatestRelease on the tag names the repository enumerates: every tag is
\* kept, an unparseable one with the zero version; the list is sorted by
\* descending version with sort.Slice, which fixes no order among equal
\* versions, and the first element is returned.  The result is the set of
\* tags that can come first; it is empty when the function returns its error.
getLatestRelease(tagNames) ==
    {t \in Range(tagNames) :
        \A u \in Range(tagNames) :
            ~GT(Make(trimTagVersion(u)).v, Make(trimTagVersion(t)).v)}

\* ------------------------------------------------------------ configuration

\* the metric-selection string "ns/op,B/op"
BothMetrics == <<"ns/op", ",", "B/op">>

\* the values of the command-line flags
VARIABLE flagConfiguration

\* the values of the command-line flags when none is given
flagDefaults ==
    [Benchtime |-> "1s", Threshold |-> 20, Compare |-> BothMetrics,
     Cpu |-> "4", Timeout |-> "10m", Benchmem |-> "true"]

\* a configuration with no field set (Benchmem is a *bool: Nil, "true", "false")
NoConfiguration ==
    [Benchtime |-> "", Threshold |-> 0, Compare |-> <<>>,
     Cpu |-> "", Timeout |-> "", Benchmem |-> Nil]

\* mutant: a metric selection that is set is extended by the default one
applyDefaultsMerging(c, d) ==
    [c EXCEPT
        !.Benchtime = IF @ = "" THEN d.Benchtime ELSE @,
        !.Threshold = IF @ = 0 THEN d.Threshold ELSE @,
        !.Compare = IF @ = <<>> THEN d.Compare
                    ELSE IF d.Compare = <<>> THEN @
                    ELSE @ \o <<",">> \o d.Compare,
        !.Cpu = IF @ = "" THEN d.Cpu ELSE @,
        !.Timeout = IF @ = "" THEN d.Timeout ELSE @,
        !.Benchmem = IF @ = Nil THEN d.Benchmem ELSE @]

\* BenchmarkConfiguration.applyDefaults on the configuration fields of c
applyDefaults(c, d) ==
    [c EXCEPT
        !.Benchtime = IF @ = "" THEN d.Benchtime ELSE @,
        !.Threshold = IF @ = 0 THEN d.Threshold ELSE @,
        !.Compare = IF @ = <<>> THEN d.Compare ELSE @,
        !.Cpu = IF @ = "" THEN d.Cpu ELSE @,
        !.Timeout = IF @ = "" THEN d.Timeout ELSE @,
        !.Benchmem = IF @ = Nil THEN d.Benchmem ELSE @]

\* mutant: the flags are applied before the list-level values
updateBenchmarksFlagsFirst(list) ==
    [list EXCEPT !.Benchmarks =
        [idx \in 1..Len(list.Benchmarks) |->
            LET b == list.Benchmarks[idx]
                named == IF b.UniqueName = "" THEN [b EXCEPT !.UniqueName = b.Name]
                         ELSE b
            IN applyDefaults(applyDefaults(named, flagConfiguration), list.cfg)]]

\* updateBenchmarks on a BenchmarkList [cfg, Benchmarks]
updateBenchmarks(list) ==
    [list EXCEPT !.Benchmarks =
        [idx \in 1..Len(list.Benchmarks) |->
            LET b == list.Benchmarks[idx]
                named == IF b.UniqueName = "" THEN [b EXCEPT !.UniqueName = b.Name]
                         ELSE b
            IN applyDefaults(applyDefaults(named, list.cfg), flagConfiguration)]]

\* ------------------------------------------------------------ result sets

\* A Go map is a set of entries [key, val]; a map that may be nil is a record
\* [nil, m].

MapHas(m, k) == \E e \in m : e.key = k

MapGet(m, k) == (CHOOSE e \in m : e.key = k).val

\* m[k] = v
MapPut(m, k, v) == {e \in m : e.key # k} \cup {[key |-> k, val |-> v]}

NilSet == [nil |-> TRUE, m |-> {}]

MakeSet(m) == [nil |-> FALSE, m |-> m]

\* mutant: the first measurement of a name measured several times is recorded
RecordResultFirstOfMany(set, benchmark, out) ==
    IF out.err THEN set
    ELSE IF Cardinality(out.parseSet) # 1 THEN set
    ELSE IF MapHas(set, benchmark.UniqueName) THEN set
    ELSE LET s == (CHOOSE e \in out.parseSet : TRUE).val IN
         MapPut(set, benchmark.UniqueName, s[1])

\* mutant: a unique name already in the set is written again
RecordResultOverwriting(set, benchmark, out) ==
    IF out.err THEN set
    ELSE IF Cardinality(out.parseSet) # 1 THEN set
    ELSE LET s == (CHOOSE e \in out.parseSet : TRUE).val IN
         IF Len(s) # 1 THEN set
         ELSE MapPut(set, benchmark.UniqueName, s[1])

\* One iteration of the loop of runBenchmarks for a benchmark that passed the
\* version check: out is what runBenchmark returned, [parseSet, err], where
\* parseSet maps a benchmark name of the output to the list of its
\* measurements.  The value is the result set after the iteration.
RecordResult(set, benchmark, out) ==
    IF out.err THEN set
    ELSE IF Cardinality(out.parseSet) # 1 THEN set
    ELSE IF MapHas(set, benchmark.UniqueName) THEN set
    ELSE LET s == (CHOOSE e \in out.parseSet : TRUE).val IN
         IF Len(s) # 1 THEN set
         ELSE MapPut(set, benchmark.UniqueName, s[1])

\* mutant: the version check is made whether or not a tag is given
VersionSkippedUntagged(benchmark, tagVersion) ==
    ~versionRequired(benchmark.VersionRequirement, tagVersion)

\* the condition under which runBenchmarks skips a benchmark without running it
VersionSkipped(benchmark, tagVersion) ==
    tagVersion # <<>> /\ ~versionRequired(benchmark.VersionRequirement, tagVersion)

\* ------------------------------------------------------------------ ratios

\* float64 division of two integers-valued operands
FDiv(n, d) ==
    IF d # 0 THEN [kind |-> "fin", num |-> n, den |-> d]
    ELSE [kind |-> IF n > 0 THEN "+Inf" ELSE IF n < 0 THEN "-Inf" ELSE "NaN",
          num |-> 0, den |-> 0]

\* the zero value of a float64
FZero == [kind |-> "fin", num |-> 0, den |-> 1]

\* mutant: a ratio equal to the threshold counts as above it
ThresholdLessOrEqual(threshold, ratio) ==
    CASE ratio.kind = "fin" -> threshold * ratio.den <= 100 * ratio.num
      [] ratio.kind = "+Inf" -> TRUE
      [] OTHER -> FALSE

\* threshold < ratio, for a threshold in percent; a measured metric is never
\* negative, so the denominator of a finite ratio is positive
ThresholdLess(threshold, ratio) ==
    CASE ratio.kind = "fin" -> threshold * ratio.den < 100 * ratio.num
      [] ratio.kind = "+Inf" -> TRUE
      [] OTHER -> FALSE

\* the closure getRationsPerOP of run(); prevBench is the variable it captures
getRationsPerOP(prevBench, headBench, baseBench) ==
    IF prevBench.NsPerOp # 0
    THEN FDiv(headBench.NsPerOp - baseBench.NsPerOp, baseBench.NsPerOp)
    ELSE FZero

\* the closure getRatioAllocedBytesPerOp of run()
getRatioAllocedBytesPerOp(prevBench, headBench, baseBench) ==
    IF prevBench.AllocedBytesPerOp # 0
    THEN FDiv(headBench.AllocedBytesPerOp - baseBench.AllocedBytesPerOp,
              baseBench.AllocedBytesPerOp)
    ELSE FZero

\* a row of the result table; the numbers are kept unformatted
generateRow(ref, b) ==
    [name |-> b.Name, ref |-> ref, ns |-> b.NsPerOp, bytes |-> b.AllocedBytesPerOp,
     placeholder |-> FALSE]

PlaceholderRow(benchName, ref) ==
    [name |-> benchName, ref |-> ref, ns |-> 0, bytes |-> 0, placeholder |-> TRUE]

MakeResult(benchmark, ratioNs, ratioBytes) ==
    [Benchmark |-> benchmark, RatioNsPerOp |-> ratioNs,
     RatioAllocedBytesPerOp |-> ratioBytes]

\* mutant: a benchmark without a result at HEAD gets a placeholder row
CompareOneWithPlaceholder(benchmark, hSet, pSet, relSet, baseRef, tag) ==
    LET benchName == benchmark.UniqueName
        none == [rows |-> <<>>, ratios |-> <<>>, ratiosWithRelease |-> <<>>]
    IN
    IF ~MapHas(hSet, benchName)
    THEN [none EXCEPT !.rows = <<PlaceholderRow(benchName, <<"HEAD">>)>>]
    ELSE
    LET headBench == MapGet(hSet, benchName) IN
    IF ~MapHas(pSet, benchName)
    THEN [none EXCEPT !.rows = <<generateRow(<<"HEAD">>, headBench),
                                 PlaceholderRow(benchName, baseRef)>>]
    ELSE
    LET prevBench == MapGet(pSet, benchName)
        base == [rows |-> <<generateRow(<<"HEAD">>, headBench),
                            generateRow(baseRef, prevBench)>>,
                 ratios |-> <<MakeResult(benchmark,
                        getRationsPerOP(prevBench, headBench, prevBench),
                        getRatioAllocedBytesPerOp(prevBench, headBench, prevBench))>>,
                 ratiosWithRelease |-> <<>>]
    IN
    IF relSet.nil \/ ~MapHas(relSet.m, benchName) THEN base
    ELSE
    LET latestReleaseBench == MapGet(relSet.m, benchName) IN
    [base EXCEPT
        !.rows = @ \o <<generateRow(tag, latestReleaseBench)>>,
        !.ratiosWithRelease = <<MakeResult(benchmark,
            getRationsPerOP(prevBench, headBench, latestReleaseBench),
            getRatioAllocedBytesPerOp(prevBench, headBench, latestReleaseBench))>>]

\* One iteration of the comparison loop of run(): what the benchmark appends
\* to rows, ratios and ratiosWithRelease.
CompareOne(benchmark, hSet, pSet, relSet, baseRef, tag) ==
    LET benchName == benchmark.UniqueName
        none == [rows |-> <<>>, ratios |-> <<>>, ratiosWithRelease |-> <<>>]
    IN
    IF ~MapHas(hSet, benchName) THEN none
    ELSE
    LET headBench == MapGet(hSet, benchName) IN
    IF ~MapHas(pSet, benchName)
    THEN [none EXCEPT !.rows = <<generateRow(<<"HEAD">>, headBench),
                                 PlaceholderRow(benchName, baseRef)>>]
    ELSE
    LET prevBench == MapGet(pSet, benchName)
        base == [rows |-> <<generateRow(<<"HEAD">>, headBench),
                            generateRow(baseRef, prevBench)>>,
                 ratios |-> <<MakeResult(benchmark,
                        getRationsPerOP(prevBench, headBench, prevBench),
                        getRatioAllocedBytesPerOp(prevBench, headBench, prevBench))>>,
                 ratiosWithRelease |-> <<>>]
    IN
    IF relSet.nil \/ ~MapHas(relSet.m, benchName) THEN base
    ELSE
    LET latestReleaseBench == MapGet(relSet.m, benchName) IN
    [base EXCEPT
        !.rows = @ \o <<generateRow(tag, latestReleaseBench)>>,
        !.ratiosWithRelease = <<MakeResult(benchmark,
            getRationsPerOP(prevBench, headBench, latestReleaseBench),
            getRatioAllocedBytesPerOp(prevBench, headBench, latestReleaseBench))>>]

\* the comparison loop of run() over the first n benchmarks
RECURSIVE CompareLoop(_, _, _, _, _, _, _)
CompareLoop(bs, n, hSet, pSet, relSet, baseRef, tag) ==
    IF n = 0 THEN [rows |-> <<>>, ratios |-> <<>>, ratiosWithRelease |-> <<>>]
    ELSE LET before == CompareLoop(bs, n - 1, hSet, pSet, relSet, baseRef, tag)
             one == CompareOne(bs[n], hSet, pSet, relSet, baseRef, tag)
         IN [rows |-> before.rows \o one.rows,
             ratios |-> before.ratios \o one.ratios,
             ratiosWithRelease |-> before.ratiosWithRelease \o one.ratiosWithRelease]

whichScoreToCompare(c) ==
    LET cc == Split(c, ",") IN
    [nsPerOp |-> \E k \in 1..Len(cc) : cc[k] = <<"ns/op">>,
     allocedBytesPerOp |-> \E k \in 1..Len(cc) : cc[k] = <<"B/op">>]

\* the value showRatio returns (the table it prints is not modelled)
RECURSIVE showRatio(_)
showRatio(results) ==
    IF results = <<>> THEN FALSE
    ELSE
        LET result == results[Len(results)]
            before == showRatio(SubSeq(results, 1, Len(results) - 1))
            comparedScore == whichScoreToCompare(result.Benchmark.Compare)
        IN
        IF comparedScore.nsPerOp
           /\ ThresholdLess(result.Benchmark.Threshold, result.RatioNsPerOp)
        THEN TRUE
        ELSE IF comparedScore.allocedBytesPerOp
                /\ ThresholdLess(result.Benchmark.Threshold,
                                 result.RatioAllocedBytesPerOp)
        THEN TRUE
        ELSE before

\* mutant: the comparison with the latest release does not count
RunVerdictBaselineOnly(regression, regressionWithLatestVersion) ==
    IF regression THEN "regression" ELSE "ok"

\* what run() returns after the comparison
RunVerdict(regression, regressionWithLatestVersion) ==
    IF regression \/ regressionWithLatestVersion THEN "regression" ELSE "ok"

\* ------------------------------------------------------- inputs of a run

\* the revisions the worktree is reset to
HeadRev == <<"HEAD">>
BaseRev == <<"HEAD~1">>

\* the worktree after a hard reset that failed: at no revision one can name
UnknownRev == <<"?">>

\* how run() can fail before it resets anything (the code up to the clean check)
EarlyFailures == {"config", "repository", "head", "revision", "worktree", "status"}

Preconditions == {"ok", "dirty"} \cup EarlyFailures

BenchmarkName(k) == "Benchmark" \o ToString(k)

\* benchmark k of the configuration file with nothing but its name set
PlainBenchmark(k) ==
    [Name |-> BenchmarkName(k), UniqueName |-> "", VersionRequirement |-> <<>>,
     Benchtime |-> "", Threshold |-> 0, Compare |-> <<>>,
     Cpu |-> "", Timeout |-> "", Benchmem |-> Nil]

\* tag names
V100 == <<"v", "1", ".", "0", ".", "0">>
V110 == <<"v", "1", ".", "1", ".", "0">>

\* the benchmarks of a configuration file of NumBenchmarks benchmarks
PlainBenchmarks == [k \in 1..NumBenchmarks |-> PlainBenchmark(k)]

\* The setups explored, a configuration file and the tags of the repository:
\* plain benchmarks, without and with a release tag; the last benchmark with
\* the unique name of the first, under list-level values; the first benchmark
\* with its own threshold and metric selection and the last one required only
\* from 1.1.0 on, with the latest release before and at that version.
Setups ==
    LET plain == [cfg |-> NoConfiguration, Benchmarks |-> PlainBenchmarks]
        duplicate ==
            [cfg |-> [NoConfiguration EXCEPT !.Threshold = 50, !.Cpu = "2"],
             Benchmarks |->
                [PlainBenchmarks EXCEPT ![NumBenchmarks].UniqueName = BenchmarkName(1)]]
        own ==
            [cfg |-> NoConfiguration,
             Benchmarks |->
                [PlainBenchmarks EXCEPT
                    ![1].Threshold = 100,
                    ![1].Compare = <<"B/op">>,
                    ![NumBenchmarks].VersionRequirement =
                        <<">", "=", "1", ".", "1", ".", "0">>]]
    IN {[file |-> plain, tags |-> <<>>],
        [file |-> plain, tags |-> <<V100>>],
        [file |-> duplicate, tags |-> <<V100, V110>>],
        [file |-> own, tags |-> <<V100>>],
        [file |-> own, tags |-> <<V110, V100>>]}

\* the measurements a benchmark run can print: [NsPerOp, AllocedBytesPerOp]
MetricPairs == {<<100, 0>>, <<150, 10>>}

Measurement(name, pair) ==
    [Name |-> name, NsPerOp |-> pair[1], AllocedBytesPerOp |-> pair[2]]

OutputName(k) == "BenchmarkOutput" \o ToString(k) \o "-4"

\* What runBenchmark can return: an error (the command failed, or its output
\* did not parse); an empty set ("no packages to test", or output without a
\* benchmark line); one name with one measurement; one name measured twice;
\* two names.
FailedRun == [err |-> TRUE, parseSet |-> {}]

Parsed(parseSet) == [err |-> FALSE, parseSet |-> parseSet]

Outcomes ==
    {FailedRun, Parsed({})}
    \cup {Parsed({[key |-> OutputName(1), val |-> <<Measurement(OutputName(1), p)>>]}) :
            p \in MetricPairs}
    \cup {Parsed({[key |-> OutputName(1),
                   val |-> <<Measurement(OutputName(1), <<100, 0>>),
                             Measurement(OutputName(1), <<150, 10>>)>>]}),
          Parsed({[key |-> OutputName(1), val |-> <<Measurement(OutputName(1), <<100, 0>>)>>],
                  [key |-> OutputName(2), val |-> <<Measurement(OutputName(2), <<150, 10>>)>>]})}

\* the value of the locals parseSet and err before runBenchmark is called
NoOutcome == [err |-> FALSE, parseSet |-> {}, called |-> FALSE]

Called(o) == [err |-> o.err, parseSet |-> o.parseSet, called |-> TRUE]

\* ------------------------------------------------------------------ state

VARIABLES
    required,               \* the arguments of versionRequired on its own
    tag,
    matched,                \* what versionRequired returned
    precondition,           \* "ok", or what makes run() fail before any reset
    compareLatestVersion,   \* the flag -compare-release
    tagNames,               \* the short names of the tags of the repository
    benchmarks,             \* the BenchmarkList: [cfg, Benchmarks]
    pc,                     \* where run() and main() are
    stage,                  \* the revision being handled: "base", "release", "head"
    deferRegistered,        \* run() has registered its deferred reset
    worktree,               \* the revision the working copy is at
    trace,                  \* the resets, benchmark runs and comparison so far
    prevVersionTag,         \* short name of the latest release tag
    tagName,                \* full name of the latest release tag
    tagVersion,             \* the argument of the running runBenchmarks
    i,                      \* index of the next benchmark of runBenchmarks
    set,                    \* the result set runBenchmarks is building
    out,                    \* what the last runBenchmark of this pass returned
    prevSet,
    latestReleaseSet,
    headSet,
    rows,
    ratios,
    ratiosWithRelease,
    regression,
    regressionWithLatestVersion,
    logged,                 \* the messages run() itself has written to the log
    runErr,                 \* what run() returned: "none" while it runs, "ok" for nil
    exitStatus              \* the exit status of the process, -1 while it runs

config == <<flagConfiguration, precondition, compareLatestVersion, tagNames>>
matcher == <<required, tag, matched>>
position == <<pc, stage, deferRegistered>>
release == <<prevVersionTag, tagName>>
pass == <<tagVersion, i, set, out>>
sets == <<prevSet, latestReleaseSet, headSet>>
comparison == <<rows, ratios, ratiosWithRelease, regression, regressionWithLatestVersion>>

vars == <<config, matcher, benchmarks, position, worktree, trace, release, pass, sets,
          comparison, logged, runErr, exitStatus>>

\* the exit status of klog.Fatal
ExitFatal == 255

Event(op, rev, idx, ok) ==
    [op |-> op, rev |-> rev, idx |-> idx, ok |-> ok, at |-> worktree]

\* the state before run() starts, whatever the configuration
Idle ==
    /\ matched = FALSE
    /\ stage = "base"
    /\ deferRegistered = FALSE
    /\ worktree = HeadRev
    /\ trace = <<>>
    /\ prevVersionTag = <<>>
    /\ tagName = <<>>
    /\ tagVersion = <<>>
    /\ i = 1
    /\ set = {}
    /\ out = NoOutcome
    /\ prevSet = NilSet
    /\ latestReleaseSet = NilSet
    /\ headSet = NilSet
    /\ rows = <<>>
    /\ ratiosWithRelease = <<>>
    /\ regression = FALSE
    /\ regressionWithLatestVersion = FALSE
    /\ logged = {}
    /\ runErr = "none"
    /\ exitStatus = -1

Init ==
    /\ flagConfiguration = flagDefaults
    /\ required = <<>>
    /\ tag = <<>>
    /\ precondition \in Preconditions
    /\ compareLatestVersion \in BOOLEAN
    /\ \E setup \in Setups :
        /\ benchmarks = setup.file
        /\ tagNames = setup.tags
    /\ pc = "start"
    /\ ratios = <<>>
    /\ Idle

\* ---------------------------------------------------------------- actions

\* mutant: the status of the working tree is not looked at
CleanCheckNeverFails(p) == FALSE

\* the working tree status is not clean
CleanCheckFails(p) == p = "dirty"

\* mutant: a return that runs no deferred function
ReturnWithoutDeferred(e) ==
    /\ runErr' = e
    /\ pc' = "returned"

\* A return of run() with the value e: the deferred reset runs first when it
\* is registered.
Return(e) ==
    /\ runErr' = e
    /\ pc' = IF deferRegistered THEN "deferred" ELSE "returned"

\* run() from its start to the registration of the deferred reset and
\* updateBenchmarks
Start ==
    /\ pc = "start"
    /\ IF precondition \in EarlyFailures \/ CleanCheckFails(precondition)
       THEN /\ Return(precondition)
            /\ UNCHANGED <<benchmarks, stage, deferRegistered>>
       ELSE /\ deferRegistered' = TRUE
            /\ benchmarks' = updateBenchmarks(benchmarks)
            /\ stage' = "base"
            /\ pc' = "reset"
            /\ UNCHANGED runErr
    /\ UNCHANGED <<config, matcher, logged, worktree, trace, release, pass, sets, comparison, exitStatus>>

\* the commit resetAndRunBenchmark is called with at a stage
Target(s) ==
    CASE s = "base" -> BaseRev
      [] s = "release" -> prevVersionTag
      [] s = "head" -> HeadRev

\* mutant: the benchmarks are run although the hard reset failed
ResetWorktreeUnchecked ==
    /\ pc = "reset"
    /\ \E ok \in BOOLEAN :
        /\ trace' = Append(trace, Event("reset", Target(stage), 0, ok))
        /\ worktree' = IF ok THEN Target(stage) ELSE UnknownRev
        /\ logged' = logged \cup {"Run Benchmark"}
        /\ tagVersion' = IF stage = "release" THEN prevVersionTag ELSE <<>>
        /\ set' = {}
        /\ i' = 1
        /\ out' = NoOutcome
        /\ pc' = "bench"
        /\ UNCHANGED runErr
    /\ UNCHANGED <<config, matcher, benchmarks, stage, deferRegistered, release, sets,
                   comparison, exitStatus>>

\* resetAndRunBenchmark up to its call of runBenchmarks: the hard reset
ResetWorktree ==
    /\ pc = "reset"
    /\ \E ok \in BOOLEAN :
        /\ trace' = Append(trace, Event("reset", Target(stage), 0, ok))
        /\ IF ok
           THEN /\ worktree' = Target(stage)
                /\ logged' = logged \cup {"Run Benchmark"}
                /\ tagVersion' = IF stage = "release" THEN prevVersionTag ELSE <<>>
                /\ set' = {}
                /\ i' = 1
                /\ out' = NoOutcome
                /\ pc' = "bench"
                /\ UNCHANGED runErr
           ELSE /\ worktree' = UnknownRev
                /\ Return("reset")
                /\ UNCHANGED <<pass, logged>>
    /\ UNCHANGED <<config, matcher, benchmarks, stage, deferRegistered, release, sets,
                   comparison, exitStatus>>

\* mutant: a benchmark that fails to run ends the pass and the run
RunBenchmarkAborting ==
    /\ pc = "bench"
    /\ i <= Len(benchmarks.Benchmarks)
    /\ LET benchmark == benchmarks.Benchmarks[i] IN
       IF VersionSkipped(benchmark, tagVersion)
       THEN /\ out' = NoOutcome
            /\ UNCHANGED <<set, trace, pc, runErr>>
       ELSE \E o \in Outcomes :
            /\ out' = Called(o)
            /\ set' = RecordResult(set, benchmark, o)
            /\ trace' = Append(trace, Event("bench", Target(stage), i, TRUE))
            /\ IF o.err THEN Return("benchmark") ELSE UNCHANGED <<pc, runErr>>
    /\ i' = i + 1
    /\ UNCHANGED <<config, matcher, logged, benchmarks, stage, deferRegistered, worktree, release,
                   tagVersion, sets, comparison, exitStatus>>

\* one iteration of the loop of runBenchmarks
RunBenchmark ==
    /\ pc = "bench"
    /\ i <= Len(benchmarks.Benchmarks)
    /\ LET benchmark == benchmarks.Benchmarks[i] IN
       IF VersionSkipped(benchmark, tagVersion)
       THEN /\ out' = NoOutcome
            /\ UNCHANGED <<set, trace>>
       ELSE \E o \in Outcomes :
            /\ out' = Called(o)
            /\ set' = RecordResult(set, benchmark, o)
            /\ trace' = Append(trace, Event("bench", Target(stage), i, TRUE))
    /\ i' = i + 1
    /\ UNCHANGED <<config, matcher, logged, benchmarks, position, worktree, release, tagVersion, sets,
                   comparison, runErr, exitStatus>>

\* runBenchmarks returns its set and resetAndRunBenchmark hands it to run()
FinishPass ==
    /\ pc = "bench"
    /\ i > Len(benchmarks.Benchmarks)
    /\ prevSet' = IF stage = "base" THEN MakeSet(set) ELSE prevSet
    /\ latestReleaseSet' = IF stage = "release" THEN MakeSet(set) ELSE latestReleaseSet
    /\ headSet' = IF stage = "head" THEN MakeSet(set) ELSE headSet
    /\ pc' = CASE stage = "base" -> "release"
               [] stage = "release" -> "reset"
               [] stage = "head" -> "compare"
    /\ stage' = IF stage = "release" THEN "head" ELSE stage
    /\ tagVersion' = <<>>
    /\ i' = 1
    /\ set' = {}
    /\ out' = NoOutcome
    /\ UNCHANGED <<config, matcher, logged, benchmarks, deferRegistered, worktree, trace, release,
                   comparison, runErr, exitStatus>>

\* mutant: the latest release is benchmarked whatever -compare-release says
ResolveReleaseAlways ==
    /\ pc = "release"
    /\ \E tagsErr \in BOOLEAN :
        LET found == IF tagsErr THEN {} ELSE getLatestRelease(tagNames) IN
        IF found = {}
        THEN /\ Return("release")
             /\ UNCHANGED <<release, stage>>
        ELSE \E t \in found :
             /\ prevVersionTag' = t
             /\ tagName' = <<"refs/tags/">> \o t
             /\ stage' = "release"
             /\ pc' = "reset"
             /\ UNCHANGED runErr
    /\ UNCHANGED <<config, matcher, logged, benchmarks, deferRegistered, worktree, trace, pass, sets,
                   comparison, exitStatus>>

\* run() between the baseline pass and the next reset: the latest release is
\* looked up when -compare-release is set
ResolveRelease ==
    /\ pc = "release"
    /\ IF ~compareLatestVersion
       THEN /\ stage' = "head"
            /\ pc' = "reset"
            /\ UNCHANGED <<release, runErr>>
       ELSE \E tagsErr \in BOOLEAN :
            LET found == IF tagsErr THEN {} ELSE getLatestRelease(tagNames) IN
            IF found = {}
            THEN /\ Return("release")
                 /\ UNCHANGED <<release, stage>>
            ELSE \E t \in found :
                 /\ prevVersionTag' = t
                 /\ tagName' = <<"refs/tags/">> \o t
                 /\ stage' = "release"
                 /\ pc' = "reset"
                 /\ UNCHANGED runErr
    /\ UNCHANGED <<config, matcher, logged, benchmarks, deferRegistered, worktree, trace, pass, sets,
                   comparison, exitStatus>>

\* mutant: a benchmark without a result at HEAD makes run() return an error
CompareFailingOnMissing ==
    /\ pc = "compare"
    /\ LET c == CompareLoop(benchmarks.Benchmarks, Len(benchmarks.Benchmarks),
                            headSet.m, prevSet.m, latestReleaseSet, BaseRev, tagName)
           reg == showRatio(c.ratios)
           regRelease == IF ~latestReleaseSet.nil THEN showRatio(c.ratiosWithRelease)
                         ELSE FALSE
           missing == \E k \in 1..Len(benchmarks.Benchmarks) :
                        ~MapHas(headSet.m, benchmarks.Benchmarks[k].UniqueName)
       IN /\ rows' = c.rows
          /\ ratios' = c.ratios
          /\ ratiosWithRelease' = c.ratiosWithRelease
          /\ regression' = reg
          /\ regressionWithLatestVersion' = regRelease
          /\ Return(IF missing THEN "missing benchmark" ELSE RunVerdict(reg, regRelease))
          /\ logged' = IF missing THEN logged \cup {"missing benchmark"} ELSE logged
    /\ trace' = Append(trace, Event("compare", HeadRev, 0, TRUE))
    /\ UNCHANGED <<config, matcher, benchmarks, stage, deferRegistered, worktree, release, pass,
                   sets, exitStatus>>

\* run() from the comparison loop to its return
Compare ==
    /\ pc = "compare"
    /\ LET c == CompareLoop(benchmarks.Benchmarks, Len(benchmarks.Benchmarks),
                            headSet.m, prevSet.m, latestReleaseSet, BaseRev, tagName)
           reg == showRatio(c.ratios)
           regRelease == IF ~latestReleaseSet.nil THEN showRatio(c.ratiosWithRelease)
                         ELSE FALSE
       IN /\ rows' = c.rows
          /\ ratios' = c.ratios
          /\ ratiosWithRelease' = c.ratiosWithRelease
          /\ regression' = reg
          /\ regressionWithLatestVersion' = regRelease
          /\ Return(RunVerdict(reg, regRelease))
    /\ logged' = IF \E k \in 1..Len(benchmarks.Benchmarks) :
                        ~MapHas(headSet.m, benchmarks.Benchmarks[k].UniqueName)
                 THEN logged \cup {"missing benchmark"}
                 ELSE logged
    /\ trace' = Append(trace, Event("compare", HeadRev, 0, TRUE))
    /\ UNCHANGED <<config, matcher, benchmarks, stage, deferRegistered, worktree, release, pass,
                   sets, exitStatus>>

\* mutant: a failed deferred reset becomes the error of run()
RestoreEscalating ==
    /\ pc = "deferred"
    /\ \E ok \in BOOLEAN :
        /\ trace' = Append(trace, Event("restore", HeadRev, 0, ok))
        /\ worktree' = IF ok THEN HeadRev ELSE UnknownRev
        /\ runErr' = IF ok THEN runErr ELSE "restore"
    /\ pc' = "returned"
    /\ UNCHANGED <<config, matcher, logged, benchmarks, stage, deferRegistered, release, pass, sets,
                   comparison, exitStatus>>

\* the deferred function of run(): reset to HEAD, the error dropped
Restore ==
    /\ pc = "deferred"
    /\ \E ok \in BOOLEAN :
        /\ trace' = Append(trace, Event("restore", HeadRev, 0, ok))
        /\ worktree' = IF ok THEN HeadRev ELSE UnknownRev
    /\ pc' = "returned"
    /\ UNCHANGED <<config, matcher, logged, benchmarks, stage, deferRegistered, release, pass, sets,
                   comparison, runErr, exitStatus>>

\* main(): klog.Fatal on an error of run()
Report ==
    /\ pc = "returned"
    /\ exitStatus' = IF runErr = "ok" THEN 0 ELSE ExitFatal
    /\ pc' = "exited"
    /\ UNCHANGED <<config, matcher, logged, benchmarks, stage, deferRegistered, worktree, trace, release,
                   pass, sets, comparison, runErr>>

Next ==
    \/ Start
    \/ ResetWorktree
    \/ RunBenchmark
    \/ FinishPass
    \/ ResolveRelease
    \/ Compare
    \/ Restore
    \/ Report

Spec == Init /\ [][Next]_vars

\* ------------------------------------------------------ showRatio on its own

\* the metric selections explored: both metrics, time only, bytes next to a
\* metric that is not tracked, and an item that is no metric because of a blank
Selections ==
    {BothMetrics, <<"ns/op">>, <<"allocs/op", ",", "B/op">>, <<"ns/op", " ">>}

\* the ratios explored: 0.1, 0.2, 0.5
RatioValues == {FDiv(10, 100), FDiv(20, 100), FDiv(50, 100)}

\* the compared benchmarks explored, with a threshold of 0.2 or 0.5
ResultValues ==
    {MakeResult([PlainBenchmark(1) EXCEPT !.UniqueName = BenchmarkName(1),
                                          !.Threshold = t, !.Compare = c],
                ns, bytes) :
        t \in {20, 50}, c \in Selections, ns \in RatioValues, bytes \in RatioValues}

ResultLists == UNION {[1..n -> ResultValues] : n \in 0..MaxResults}

InitShowRatio ==
    /\ flagConfiguration = flagDefaults
    /\ required = <<>>
    /\ tag = <<>>
    /\ precondition = "ok"
    /\ compareLatestVersion = FALSE
    /\ tagNames = <<>>
    /\ benchmarks = [cfg |-> NoConfiguration, Benchmarks |-> <<>>]
    /\ pc = "showRatio"
    /\ ratios \in ResultLists
    /\ Idle

\* showRatio is called on the list
ShowRatioCall ==
    /\ pc = "showRatio"
    /\ regression' = showRatio(ratios)
    /\ pc' = "shown"
    /\ UNCHANGED <<config, matcher, logged, benchmarks, stage, deferRegistered, worktree, trace, release,
                   pass, sets, rows, ratios, ratiosWithRelease,
                   regressionWithLatestVersion, runErr, exitStatus>>

NextShowRatio == ShowRatioCall

SpecShowRatio == InitShowRatio /\ [][NextShowRatio]_vars

\* ------------------------------------------------- getLatestRelease on its own

\* longest list of tags of the repository
MaxTags == 3

\* more tag names: 1.10.0, 0.0.0 without the prefix, and two names that are no
\* semantic version
V1100 == <<"v", "1", ".", "1", "0", ".", "0">>
V000 == <<"0", ".", "0", ".", "0">>
Latest == <<"l", "a", "t", "e", "s", "t">>
V10 == <<"v", "1", ".", "0">>

TagPool == {V100, V110, V1100, V000, Latest, V10}

TagLists == UNION {[1..n -> TagPool] : n \in 0..MaxTags}

InitLatestRelease ==
    /\ flagConfiguration = flagDefaults
    /\ required = <<>>
    /\ tag = <<>>
    /\ precondition = "ok"
    /\ compareLatestVersion = TRUE
    /\ tagNames \in TagLists
    /\ benchmarks = [cfg |-> NoConfiguration, Benchmarks |-> <<>>]
    /\ pc = "getLatestRelease"
    /\ ratios = <<>>
    /\ Idle

\* getLatestRelease is called: repository.Tags() may fail; otherwise the tags
\* are collected and sorted, and the first one is returned if there is any
GetLatestReleaseCall ==
    /\ pc = "getLatestRelease"
    /\ \E tagsErr \in BOOLEAN :
        IF tagsErr
        THEN /\ runErr' = "tags"
             /\ UNCHANGED prevVersionTag
        ELSE LET found == getLatestRelease(tagNames) IN
             IF found = {}
             THEN /\ runErr' = "version tags not found"
                  /\ UNCHANGED prevVersionTag
             ELSE \E t \in found :
                  /\ prevVersionTag' = t
                  /\ runErr' = "ok"
    /\ pc' = "latest"
    /\ UNCHANGED <<config, matcher, logged, benchmarks, stage, deferRegistered, worktree, trace,
                   tagName, pass, sets, comparison, exitStatus>>

NextLatestRelease == GetLatestReleaseCall

SpecLatestRelease == InitLatestRelease /\ [][NextLatestRelease]_vars

\* -------------------------------------------------- versionRequired on its own

\* most blanks before or after a constraint or a tag
MaxPad == 1

\* n blanks
RECURSIVE Spaces(_)
Spaces(n) == IF n = 0 THEN <<>> ELSE <<" ">> \o Spaces(n - 1)

Pads == {Spaces(n) : n \in 0..MaxPad}

\* Version literals with what they denote: four semantic versions, and texts
\* that are none (two fields only, nothing at all, a leading zero).
Literals ==
    {[text |-> <<"1", ".", "3", ".", "0">>, ok |-> TRUE, ver |-> <<1, 3, 0>>],
     [text |-> <<"1", ".", "9", ".", "0">>, ok |-> TRUE, ver |-> <<1, 9, 0>>],
     [text |-> <<"1", ".", "1", "0", ".", "0">>, ok |-> TRUE, ver |-> <<1, 10, 0>>],
     [text |-> <<"0", ".", "0", ".", "0">>, ok |-> TRUE, ver |-> <<0, 0, 0>>],
     [text |-> <<"1", ".", "0">>, ok |-> FALSE, ver |-> <<0, 0, 0>>],
     [text |-> <<>>, ok |-> FALSE, ver |-> <<0, 0, 0>>],
     [text |-> <<"0", "1", ".", "3", ".", "0">>, ok |-> FALSE, ver |-> <<0, 0, 0>>]}

\* the comparison a constraint starts with: none, ">=", ">"
Comparators == {<<>>, <<">", "=">>, <<">">>}

Prefixes == {<<>>, <<tagVersionPrefix>>}

\* a version requirement of the configuration file, in its parts
RequirementParts ==
    [left : Pads, op : Comparators, prefix : Prefixes, lit : Literals, right : Pads]

\* a tag name, in its parts
TagParts == [left : Pads, prefix : Prefixes, lit : Literals, right : Pads]

RequirementText(c) == c.left \o c.op \o c.prefix \o c.lit.text \o c.right

TagText(t) == t.left \o t.prefix \o t.lit.text \o t.right

InitVersionRequired ==
    /\ flagConfiguration = flagDefaults
    /\ precondition = "ok"
    /\ compareLatestVersion = FALSE
    /\ tagNames = <<>>
    /\ benchmarks = [cfg |-> NoConfiguration, Benchmarks |-> <<>>]
    /\ pc = "versionRequired"
    /\ ratios = <<>>
    /\ Idle
    /\ \E c \in RequirementParts, t \in TagParts :
        /\ required = RequirementText(c)
        /\ tag = TagText(t)

\* versionRequired is called on the two strings
VersionRequiredCall ==
    /\ pc = "versionRequired"
    /\ matched' = versionRequired(required, tag)
    /\ pc' = "matched"
    /\ UNCHANGED <<config, required, tag, logged, benchmarks, stage, deferRegistered,
                   worktree, trace, release, pass, sets, comparison, runErr, exitStatus>>

NextVersionRequired == VersionRequiredCall

SpecVersionRequired == InitVersionRequired /\ [][NextVersionRequired]_vars

\* ------------------------------------------------- updateBenchmarks on its own

\* values a benchmark and the list of benchmarks can set in the configuration
\* file, different from each other and from the defaults of the flags
OwnConfiguration ==
    [Benchtime |-> "5s", Threshold |-> 100, Compare |-> <<"B/op">>,
     Cpu |-> "1", Timeout |-> "1m", Benchmem |-> "false"]

ListConfiguration ==
    [Benchtime |-> "2s", Threshold |-> 50, Compare |-> <<"ns/op">>,
     Cpu |-> "2", Timeout |-> "5m", Benchmem |-> "false"]

\* c with all of its fields set, none, the first three or the last two
Partials(c) ==
    {c, NoConfiguration,
     [c EXCEPT !.Cpu = "", !.Timeout = "", !.Benchmem = Nil],
     [c EXCEPT !.Benchtime = "", !.Threshold = 0, !.Compare = <<>>, !.Cpu = ""]}

\* the flags: not given, or given empty (-benchtime "" -threshold 0 ...
\* -benchmem=false); Benchmem of the flags is never nil
FlagSettings ==
    {flagDefaults,
     [Benchtime |-> "", Threshold |-> 0, Compare |-> <<>>,
      Cpu |-> "", Timeout |-> "", Benchmem |-> "false"]}

\* benchmark b with the configuration fields of c
WithConfiguration(b, c) ==
    [b EXCEPT !.Benchtime = c.Benchtime, !.Threshold = c.Threshold,
              !.Compare = c.Compare, !.Cpu = c.Cpu, !.Timeout = c.Timeout,
              !.Benchmem = c.Benchmem]

InitUpdateBenchmarks ==
    /\ flagConfiguration \in FlagSettings
    /\ required = <<>>
    /\ tag = <<>>
    /\ precondition = "ok"
    /\ compareLatestVersion = FALSE
    /\ tagNames = <<>>
    /\ \E cfg \in Partials(ListConfiguration),
          own \in [1..NumBenchmarks -> Partials(OwnConfiguration)],
          unique \in [1..NumBenchmarks -> BOOLEAN] :
        benchmarks =
            [cfg |-> cfg,
             Benchmarks |->
                [k \in 1..NumBenchmarks |->
                    WithConfiguration(
                        [PlainBenchmark(k) EXCEPT
                            !.UniqueName = IF unique[k] THEN "Unique" \o ToString(k)
                                           ELSE ""],
                        own[k])]]
    /\ pc = "updateBenchmarks"
    /\ ratios = <<>>
    /\ Idle

\* updateBenchmarks is called, and then called again
UpdateBenchmarksCall ==
    /\ pc \in {"updateBenchmarks", "updated"}
    /\ benchmarks' = updateBenchmarks(benchmarks)
    /\ pc' = IF pc = "updateBenchmarks" THEN "updated" ELSE "updated twice"
    /\ UNCHANGED <<config, matcher, logged, stage, deferRegistered, worktree, trace,
                   release, pass, sets, comparison, runErr, exitStatus>>

NextUpdateBenchmarks == UpdateBenchmarksCall

SpecUpdateBenchmarks == InitUpdateBenchmarks /\ [][NextUpdateBenchmarks]_vars

\* ----------------------------------------------------------------- claims

Finished == pc \in {"returned", "exited"}

\* the positions of the trace that hold an event of kind op
EventsOf(op) == {k \in 1..Len(trace) : trace[k].op = op}

Compared == EventsOf("compare") # {}

\* C1: once the clean check has passed, every return of run() (success,
\* regression, a failed reset at any stage, no latest release) is followed by
\* one hard reset to the HEAD captured at the start, which is the last thing
\* done to the worktree, and main reports the outcome only after it.
C1_RestoreOnEveryExit ==
    /\ (precondition = "ok" /\ Finished) =>
            /\ Cardinality(EventsOf("restore")) = 1
            /\ trace[Len(trace)].op = "restore"
            /\ trace[Len(trace)].rev = HeadRev
    /\ (exitStatus # -1) => Finished

C1_Witness ==
    /\ pc = "exited"
    /\ runErr = "release"
    /\ exitStatus = ExitFatal
    /\ trace[Len(trace)].op = "restore"

\* C2: with a working copy that is not clean, run() returns the fatal error
\* and has performed no hard reset (checkout or restore) and run no benchmark.
C2_DirtyAborts ==
    (precondition = "dirty" /\ pc # "start") =>
        /\ Finished
        /\ runErr = "dirty"
        /\ trace = <<>>
        /\ worktree = HeadRev
        /\ (pc = "exited" => exitStatus = ExitFatal)

C2_Witness ==
    /\ precondition = "dirty"
    /\ pc = "exited"
    /\ exitStatus = ExitFatal
    /\ trace = <<>>

\* the place of a stage in a run: baseline, latest release, HEAD
StageRank(rev) == IF rev = BaseRev THEN 1 ELSE IF rev = HeadRev THEN 3 ELSE 2

\* the place of an event in a run
Place(e) ==
    CASE e.op = "reset" -> 100 * StageRank(e.rev)
      [] e.op = "bench" -> 100 * StageRank(e.rev) + e.idx
      [] e.op = "compare" -> 400
      [] e.op = "restore" -> 500

\* the revisions of the passes a run with a comparison makes, in order
ExpectedPasses ==
    IF compareLatestVersion THEN <<BaseRev, prevVersionTag, HeadRev>>
    ELSE <<BaseRev, HeadRev>>

\* the benchmarks invoked at the pass of revision rev, in the order invoked
InvokedAt(rev) ==
    LET e == SelectSeq(trace, LAMBDA x : x.op = "bench" /\ x.rev = rev)
    IN [k \in 1..Len(e) |-> e[k].idx]

\* the indexes, in order, of the benchmarks applicable under tag version tv
RECURSIVE Applicable(_, _)
Applicable(n, tv) ==
    IF n = 0 THEN <<>>
    ELSE Applicable(n - 1, tv)
         \o (IF tv # <<>> /\ ~versionRequired(benchmarks.Benchmarks[n].VersionRequirement, tv)
             THEN <<>> ELSE <<n>>)

\* C3: the steps of a run happen in the fixed order baseline reset and pass,
\* release reset and pass (only with -compare-release), HEAD reset and pass,
\* comparison, restore; none happens twice or out of order, and a run that
\* reaches the comparison has made exactly these passes, each complete.
C3_FixedOrder ==
    /\ \A j, k \in 1..Len(trace) : j < k => Place(trace[j]) < Place(trace[k])
    /\ \A k \in 1..Len(trace) :
            /\ (trace[k].op \in {"reset", "bench"} /\ StageRank(trace[k].rev) = 2)
                    => compareLatestVersion
            /\ trace[k].op = "bench" =>
                    \E j \in 1..(k - 1) :
                        /\ trace[j].op = "reset"
                        /\ trace[j].rev = trace[k].rev
                        /\ trace[j].ok
    /\ Compared =>
            LET resets == SelectSeq(trace, LAMBDA x : x.op = "reset") IN
            /\ [k \in 1..Len(resets) |-> resets[k].rev] = ExpectedPasses
            /\ \A k \in 1..Len(resets) : resets[k].ok
            /\ InvokedAt(BaseRev) = Applicable(NumBenchmarks, <<>>)
            /\ InvokedAt(HeadRev) = Applicable(NumBenchmarks, <<>>)
            /\ compareLatestVersion =>
                    InvokedAt(prevVersionTag) = Applicable(NumBenchmarks, prevVersionTag)
    /\ (Finished /\ Compared) => trace[Len(trace)].op = "restore"

C3_Witness ==
    /\ pc = "exited"
    /\ compareLatestVersion
    /\ Compared
    /\ Len(InvokedAt(prevVersionTag)) = NumBenchmarks
    /\ Len(trace) = 3 * NumBenchmarks + 5

\* a ratio is strictly greater than a threshold given in percent
Exceeds(ratio, threshold) ==
    \/ ratio.kind = "+Inf"
    \/ ratio.kind = "fin" /\ 100 * ratio.num > threshold * ratio.den

\* a metric is one of the comma-separated items of a metric selection
Selected(c, metric) ==
    \E k \in 1..Len(Split(c, ",")) : Split(c, ",")[k] = <<metric>>

\* a compared benchmark has a selected metric whose ratio exceeds its threshold
Regressed(r) ==
    \/ /\ Selected(r.Benchmark.Compare, "ns/op")
       /\ Exceeds(r.RatioNsPerOp, r.Benchmark.Threshold)
    \/ /\ Selected(r.Benchmark.Compare, "B/op")
       /\ Exceeds(r.RatioAllocedBytesPerOp, r.Benchmark.Threshold)

\* a comparison detected a regression
Detected(results) == \E k \in 1..Len(results) : Regressed(results[k])

\* C4: run() returns the regression error exactly when the comparison with
\* the baseline or, with -compare-release, the comparison with the latest
\* release detected a regression; a run that compared and detected none
\* returns success, and success is returned by no other run.
C4_VerdictIsOr ==
    (pc \in {"deferred", "returned", "exited"}) =>
        /\ runErr = "regression" <=>
                /\ Compared
                /\ \/ Detected(ratios)
                   \/ compareLatestVersion /\ Detected(ratiosWithRelease)
        /\ runErr = "ok" <=>
                /\ Compared
                /\ ~Detected(ratios)
                /\ ~(compareLatestVersion /\ Detected(ratiosWithRelease))

C4_Witness ==
    /\ pc = "exited"
    /\ runErr = "regression"
    /\ ~Detected(ratios)
    /\ Detected(ratiosWithRelease)

\* C5: showRatio returns true exactly when some compared benchmark has a
\* selected metric whose ratio is strictly greater than the threshold of that
\* benchmark; a ratio equal to the threshold, or above it on a metric that is
\* not selected, does not count, and either selected metric suffices.
C5_RegressionIffExceeds ==
    pc = "shown" => (regression <=> Detected(ratios))

\* a result whose only ratio above the threshold is the one of its bytes
BytesOnly(r) ==
    /\ Regressed(r)
    /\ ~Exceeds(r.RatioNsPerOp, r.Benchmark.Threshold)

\* a result at the threshold on a selected metric and above it on one that is
\* not selected
NotCounted(r) ==
    /\ ~Regressed(r)
    /\ Selected(r.Benchmark.Compare, "ns/op")
    /\ r.RatioNsPerOp = FDiv(r.Benchmark.Threshold, 100)
    /\ Exceeds(r.RatioAllocedBytesPerOp, r.Benchmark.Threshold)

C5_Witness ==
    /\ pc = "shown"
    /\ regression
    /\ Len(ratios) = 2
    /\ NotCounted(ratios[1])
    /\ BytesOnly(ratios[2])

\* the ratio of a metric is (current - reference) / reference for a reference
\* that is not zero, and zero for a reference of zero
OwnRatio(ratio, current, reference) ==
    /\ ratio.kind = "fin"
    /\ IF reference # 0
       THEN ratio.num * reference = (current - reference) * ratio.den
       ELSE ratio.num = 0

\* both ratios of a result are the ones of HEAD against the reference set
OwnRatios(r, referenceSet) ==
    LET current == MapGet(headSet.m, r.Benchmark.UniqueName)
        reference == MapGet(referenceSet, r.Benchmark.UniqueName)
    IN /\ OwnRatio(r.RatioNsPerOp, current.NsPerOp, reference.NsPerOp)
       /\ OwnRatio(r.RatioAllocedBytesPerOp, current.AllocedBytesPerOp,
                   reference.AllocedBytesPerOp)

\* C6: in both comparisons of run(), HEAD against the baseline and HEAD
\* against the latest release, each ratio is (current - reference) / reference
\* when the metric of the reference of that comparison is not zero and zero
\* when it is zero, and none is the result of a division by zero.
C6_RatiosUseOwnReference ==
    Compared =>
        /\ \A k \in 1..Len(ratios) : OwnRatios(ratios[k], prevSet.m)
        /\ \A k \in 1..Len(ratiosWithRelease) :
                OwnRatios(ratiosWithRelease[k], latestReleaseSet.m)

\* the configured benchmarks with an entry in the HEAD result set, and those
\* that also have one in the other sets
AtHead == {k \in 1..Len(benchmarks.Benchmarks) :
            MapHas(headSet.m, benchmarks.Benchmarks[k].UniqueName)}

AtHeadAndBase == {k \in AtHead : MapHas(prevSet.m, benchmarks.Benchmarks[k].UniqueName)}

AtAllThree == {k \in AtHeadAndBase :
                MapHas(latestReleaseSet.m, benchmarks.Benchmarks[k].UniqueName)}

MissingAtHead == (1..Len(benchmarks.Benchmarks)) \ AtHead

NoRatioFor(name) ==
    /\ \A k \in 1..Len(ratios) : ratios[k].Benchmark.UniqueName # name
    /\ \A k \in 1..Len(ratiosWithRelease) :
            ratiosWithRelease[k].Benchmark.UniqueName # name

\* C7 as claimed: a configured benchmark without an entry in the HEAD result
\* set gets a placeholder row and no ratio, and the run does not fail for it.
C7_PlaceholderForMissingHead ==
    Compared =>
        \A k \in MissingAtHead :
            LET name == benchmarks.Benchmarks[k].UniqueName IN
            /\ \E r \in 1..Len(rows) : rows[r].placeholder /\ rows[r].name = name
            /\ NoRatioFor(name)
            /\ runErr \in {"ok", "regression"}

\* C7, amended: a configured benchmark without an entry in the HEAD result set
\* gets no row at all, placeholder or other, and no ratio; the comparison does
\* not fail for it and goes on: every benchmark with an entry at HEAD has its
\* two rows (and a third with all three sets), and those with an entry in the
\* baseline set too their ratio.
C7_NoRowForMissingHead ==
    Compared =>
        /\ \A k \in MissingAtHead :
                LET name == benchmarks.Benchmarks[k].UniqueName IN
                /\ \A r \in 1..Len(rows) : rows[r].placeholder => rows[r].name # name
                /\ NoRatioFor(name)
        /\ Len(rows) = 2 * Cardinality(AtHead) + Cardinality(AtAllThree)
        /\ Len(ratios) = Cardinality(AtHeadAndBase)
        /\ Len(ratiosWithRelease) = Cardinality(AtAllThree)
        /\ runErr \in {"ok", "regression"}

\* the first benchmark is missing at HEAD and the last one is compared
C7_Witness ==
    /\ Compared
    /\ 1 \in MissingAtHead
    /\ NumBenchmarks \in AtHeadAndBase
    /\ Len(rows) = 2
    /\ Len(ratios) = 1

\* a step of the loop of runBenchmarks
BenchmarkStep == pc = "bench" /\ i' = i + 1

\* C8: a benchmark that fails to run does not end the pass: the result set is
\* left as it was, the loop goes on to the next benchmark and run() has not
\* failed; when the loop ends, every benchmark applicable to the revision has
\* been invoked, and the pass hands its set over without an error.
C8_FailureDoesNotAbort ==
    /\ [][(BenchmarkStep /\ out'.called /\ out'.err) =>
            (set' = set /\ pc' = "bench" /\ runErr' = "none")]_vars
    /\ [][(pc = "bench" /\ i > NumBenchmarks) =>
            /\ InvokedAt(Target(stage)) = Applicable(NumBenchmarks, tagVersion)
            /\ pc' \in {"release", "reset", "compare"}
            /\ runErr' = "none"
            /\ <<prevSet', latestReleaseSet', headSet'>> # <<prevSet, latestReleaseSet, headSet>>]_vars
    /\ [](runErr # "benchmark")

\* the second benchmark failed after the first one was recorded
C8_Witness ==
    /\ pc = "bench"
    /\ out.called
    /\ out.err
    /\ i = 3
    /\ Cardinality(set) = 1
    /\ runErr = "none"

\* the number of measurements of a parsed output
MeasurementCount(parseSet) ==
    LET names == {e.key : e \in parseSet}
        RECURSIVE Sum(_)
        Sum(ns) == IF ns = {} THEN 0
                   ELSE LET n == CHOOSE x \in ns : TRUE
                        IN Len(MapGet(parseSet, n)) + Sum(ns \ {n})
    IN Sum(names)

\* the one measurement of a parsed output that holds exactly one
OnlyMeasurement(parseSet) == (CHOOSE e \in parseSet : TRUE).val[1]

\* C9: a step of runBenchmarks changes the result set only when the benchmark
\* was run without error and its output holds exactly one measurement, and
\* then by adding that measurement under the unique name of the benchmark; an
\* output of zero or several measurements changes nothing, and the loop goes on.
C9_ExactlyOneMeasurement ==
    [][BenchmarkStep =>
        /\ pc' = "bench"
        /\ set' # set =>
                /\ out'.called
                /\ ~out'.err
                /\ MeasurementCount(out'.parseSet) = 1
                /\ set' = set \cup {[key |-> benchmarks.Benchmarks[i].UniqueName,
                                     val |-> OnlyMeasurement(out'.parseSet)]}
        /\ (out'.called /\ ~out'.err /\ MeasurementCount(out'.parseSet) # 1) =>
                set' = set]_vars

\* an output of two measurements of one name after one that was recorded
C9_Witness ==
    /\ pc = "bench"
    /\ out.called
    /\ ~out.err
    /\ Cardinality(out.parseSet) = 1
    /\ MeasurementCount(out.parseSet) = 2
    /\ i = 3
    /\ Cardinality(set) = 1

UniqueKeys(m) == \A e1, e2 \in m : e1.key = e2.key => e1 = e2

\* C10: within a pass, an entry of the result set is never removed nor
\* changed, so a benchmark whose unique name is already a key leaves the set
\* as it is and the loop goes on; a result set holds one measurement per name.
C10_NoOverwrite ==
    /\ [][BenchmarkStep =>
            /\ set \subseteq set'
            /\ MapHas(set, benchmarks.Benchmarks[i].UniqueName) =>
                    (set' = set /\ pc' = "bench" /\ i' = i + 1)]_vars
    /\ [](/\ UniqueKeys(set)
          /\ UniqueKeys(prevSet.m)
          /\ UniqueKeys(latestReleaseSet.m)
          /\ UniqueKeys(headSet.m))

\* the last benchmark, with the unique name of the first, was measured and its
\* measurement differs from the entry that is kept
C10_Witness ==
    /\ pc = "bench"
    /\ i = NumBenchmarks + 1
    /\ benchmarks.Benchmarks[NumBenchmarks].UniqueName = BenchmarkName(1)
    /\ out.called
    /\ ~out.err
    /\ MeasurementCount(out.parseSet) = 1
    /\ MapHas(set, BenchmarkName(1))
    /\ MapGet(set, BenchmarkName(1)) # OnlyMeasurement(out.parseSet)

\* C11: a step of the loop of runBenchmarks invokes its benchmark exactly when
\* the tag is empty or versionRequired accepts the tag for the constraint of
\* the benchmark; a rejected benchmark is not run, adds nothing to the result
\* set and raises no error.  The tag is non-empty only in the pass of the
\* latest release, so the baseline and HEAD passes invoke every benchmark.
C11_VersionGate ==
    /\ [][BenchmarkStep =>
            LET benchmark == benchmarks.Benchmarks[i]
                accepted == \/ tagVersion = <<>>
                            \/ versionRequired(benchmark.VersionRequirement, tagVersion)
            IN /\ out'.called <=> accepted
               /\ out'.called <=> (trace' = Append(trace, [op |-> "bench",
                                        rev |-> Target(stage), idx |-> i, ok |-> TRUE,
                                        at |-> worktree]))
               /\ ~accepted =>
                    /\ trace' = trace
                    /\ set' = set
                    /\ runErr' = runErr
                    /\ pc' = "bench"]_vars
    /\ [](pc = "bench" =>
            /\ tagVersion # <<>> <=> stage = "release"
            /\ stage = "release" => tagVersion = prevVersionTag)
    /\ [][(BenchmarkStep /\ stage \in {"base", "head"}) => out'.called]_vars

\* in the pass of release v1.0.0 the last benchmark, required from 1.1.0 on,
\* was skipped, after it was run in the baseline pass
C11_Witness ==
    /\ pc = "bench"
    /\ stage = "release"
    /\ tagVersion = V100
    /\ i = NumBenchmarks + 1
    /\ benchmarks.Benchmarks[NumBenchmarks].VersionRequirement # <<>>
    /\ ~out.called
    /\ \E k \in EventsOf("bench") :
            trace[k].rev = BaseRev /\ trace[k].idx = NumBenchmarks

\* the step of the deferred function: the restoring reset is attempted and
\* the value run() returns is left as it was
RestoreStep ==
    /\ runErr' = runErr
    /\ pc' = "returned"
    /\ Len(trace') = Len(trace) + 1
    /\ trace'[Len(trace')].op = "restore"
    /\ trace'[Len(trace')].rev = HeadRev

\* C18 as stated: the restoring reset is attempted once a reset has been, its
\* failure is logged, and it leaves the value run() returns as it was.
C18_RestoreFailureLogged ==
    [][pc = "deferred" =>
        /\ RestoreStep
        /\ ~trace'[Len(trace')].ok => logged' # logged]_vars

\* C18, amended: once run() has attempted a reset, it attempts the restoring
\* reset before it returns, whatever it returns; the restoring reset, failed
\* or not, writes nothing to the log and leaves the value run() returns as it
\* was, and the exit status of the process follows from that value alone.
C18_RestoreNotEscalated ==
    /\ [][pc = "deferred" => (RestoreStep /\ logged' = logged)]_vars
    /\ []((Finished /\ EventsOf("reset") # {}) =>
            /\ EventsOf("restore") # {}
            /\ trace[Len(trace)].op = "restore")
    /\ [](Finished =>
            runErr \in {"ok", "regression", "reset", "release", "dirty"} \cup EarlyFailures)
    /\ [](pc = "exited" => exitStatus = IF runErr = "ok" THEN 0 ELSE ExitFatal)

\* the restoring reset failed after a run without regression, and the process
\* exited with status 0
C18_Witness ==
    /\ pc = "exited"
    /\ Compared
    /\ trace[Len(trace)].op = "restore"
    /\ ~trace[Len(trace)].ok
    /\ worktree = UnknownRev
    /\ runErr = "ok"
    /\ exitStatus = 0

\* the tags of the repository whose name, the prefix stripped, is a semantic
\* version
ParseableTags == {t \in Range(tagNames) : ~Make(trimTagVersion(t)).err}

TagVersion(t) == Make(trimTagVersion(t)).v

\* getLatestRelease has returned after it enumerated the tags
TagsEnumerated == pc = "latest" /\ runErr # "tags"

\* C12: when no tag name parses as a semantic version, getLatestRelease
\* returns its error, also when the repository has tags; a tag it returns has
\* a name that parses.
C12_NoReleaseWhenNoneParses ==
    TagsEnumerated =>
        /\ ParseableTags = {} => runErr = "version tags not found"
        /\ runErr = "ok" => prevVersionTag \in ParseableTags

\* C13: when some tag name parses, getLatestRelease returns a parseable tag
\* whose version no parseable tag exceeds, whatever other tags there are and
\* in whatever order they are enumerated.
C13_MaximumOfParseable ==
    (TagsEnumerated /\ ParseableTags # {}) =>
        /\ runErr = "ok"
        /\ prevVersionTag \in ParseableTags
        /\ \A u \in ParseableTags : GTE(TagVersion(prevVersionTag), TagVersion(u))

\* C14: versionRequired returns true for every tag when the constraint is
\* empty or made of blanks only.
C14_BlankConstraintMatches ==
    (pc = "matched" /\ TrimSpace(required) = <<>>) => matched

\* C15: blanks before and after either argument do not change what
\* versionRequired returns: the result is the one for the trimmed arguments.
\* Stated for the constraints that are not blank, which are C14's.
C15_WhitespaceInsignificant ==
    (pc = "matched" /\ TrimSpace(required) # <<>>) =>
        (matched <=> versionRequired(TrimSpace(required), TrimSpace(tag)))

\* the order of two versions given as <<major, minor, patch>>: -1, 0 or 1
TripleCompare(a, b) ==
    IF a[1] # b[1] THEN (IF a[1] > b[1] THEN 1 ELSE -1)
    ELSE IF a[2] # b[2] THEN (IF a[2] > b[2] THEN 1 ELSE -1)
    ELSE IF a[3] # b[3] THEN (IF a[3] > b[3] THEN 1 ELSE -1)
    ELSE 0

\* whether a tag of version tv meets a constraint of comparison op and version cv
Meets(op, tv, cv) ==
    CASE op = <<">", "=">> -> TripleCompare(tv, cv) >= 0
      [] op = <<">">> -> TripleCompare(tv, cv) > 0
      [] op = <<>> -> TripleCompare(tv, cv) = 0

\* the ways to read the arguments of the call as parts
RequiredAs == {c \in RequirementParts : RequirementText(c) = required}

TagAs == {t \in TagParts : TagText(t) = tag /\ t.left = <<>> /\ t.right = <<>>}

\* C16: for a constraint and a tag whose versions are semantic versions, with
\* or without the prefix v on either: ">=" matches exactly the tags of a
\* version at least the constraint's, ">" exactly those of a greater version,
\* and no comparison exactly those of an equal version; versions compare by
\* the numbers of their fields.
C16_ComparisonSemantics ==
    pc = "matched" =>
        \A c \in RequiredAs, t \in TagAs :
            (c.lit.ok /\ t.lit.ok) => (matched <=> Meets(c.op, t.lit.ver, c.lit.ver))

\* v1.10.0 was found to meet ">=1.9.0"
C16_Witness ==
    /\ pc = "matched"
    /\ required = <<">", "=", "1", ".", "9", ".", "0">>
    /\ tag = <<"v", "1", ".", "1", "0", ".", "0">>
    /\ matched

\* C17: versionRequired returns a truth value whatever its arguments; when
\* the text of the constraint's version or of the tag's is no semantic
\* version, the result is the one for the version 0.0.0 in its place.
C17_MalformedIsZero ==
    (pc = "matched" /\ TrimSpace(required) # <<>>) =>
        /\ matched \in BOOLEAN
        /\ \A c \in RequiredAs, t \in TagAs :
            (~c.lit.ok \/ ~t.lit.ok) =>
                (matched <=> Meets(c.op,
                                   IF t.lit.ok THEN t.lit.ver ELSE <<0, 0, 0>>,
                                   IF c.lit.ok THEN c.lit.ver ELSE <<0, 0, 0>>))

\* two texts that are no version were found equal
C17_Witness ==
    /\ pc = "matched"
    /\ required = <<"1", ".", "0">>
    /\ tag = <<"v", "0", "1", ".", "3", ".", "0">>
    /\ matched

ConfigurationFields == {"Benchtime", "Threshold", "Compare", "Cpu", "Timeout", "Benchmem"}

\* a configuration field that is empty, zero or nil
Unset(f, value) ==
    CASE f = "Threshold" -> value = 0
      [] f = "Compare" -> value = <<>>
      [] f = "Benchmem" -> value = "nil"
      [] OTHER -> value = ""

\* the first value that is set, the global one when neither of the others is
FirstSet(f, own, listLevel, global) ==
    IF ~Unset(f, own) THEN own ELSE IF ~Unset(f, listLevel) THEN listLevel ELSE global

\* C19: updateBenchmarks leaves in each configuration field of each benchmark
\* the value of the benchmark if it is set, else the list-level value if that
\* is set, else the value of the flag; a unique name that is empty becomes the
\* name of the benchmark, and nothing else changes.
C19_ThreeLevelDefaults ==
    [][pc = "updateBenchmarks" =>
        /\ benchmarks'.cfg = benchmarks.cfg
        /\ Len(benchmarks'.Benchmarks) = Len(benchmarks.Benchmarks)
        /\ \A k \in 1..Len(benchmarks.Benchmarks) :
            LET before == benchmarks.Benchmarks[k]
                after == benchmarks'.Benchmarks[k]
            IN /\ \A f \in ConfigurationFields :
                    /\ after[f] = FirstSet(f, before[f], benchmarks.cfg[f],
                                           flagConfiguration[f])
                    /\ ~Unset(f, before[f]) => after[f] = before[f]
               /\ after.UniqueName = IF before.UniqueName = "" THEN before.Name
                                     ELSE before.UniqueName
               /\ after.Name = before.Name
               /\ after.VersionRequirement = before.VersionRequirement]_vars

\* after the call the first benchmark has a field from each level: its own
\* benchtime, the timeout of the list and the cpu of the flags
C19_Witness ==
    /\ pc = "updated"
    /\ benchmarks.cfg.Benchtime = ""
    /\ benchmarks.cfg.Cpu = ""
    /\ benchmarks.Benchmarks[1].Benchtime = OwnConfiguration.Benchtime
    /\ benchmarks.Benchmarks[1].Timeout = ListConfiguration.Timeout
    /\ benchmarks.Benchmarks[1].Cpu = flagDefaults.Cpu
    /\ benchmarks.Benchmarks[1].UniqueName = BenchmarkName(1)

\* C20: a second call of updateBenchmarks, under the same list-level values
\* and flags, changes nothing.
C20_Idempotent ==
    [][pc = "updated" => (benchmarks' = benchmarks /\ pc' = "updated twice")]_vars

\* the second call was made on a list whose first call filled fields from the
\* list and from the flags
C20_Witness ==
    /\ pc = "updated twice"
    /\ benchmarks.cfg.Cpu = ""
    /\ benchmarks.Benchmarks[1].Compare = OwnConfiguration.Compare
    /\ benchmarks.Benchmarks[1].Cpu = flagDefaults.Cpu
    /\ benchmarks.Benchmarks[NumBenchmarks].Threshold = ListConfiguration.Threshold

\* the configured benchmarks with an entry in the result set of HEAD and in
\* the one of the latest release
AtHeadAndRelease == {k \in AtHead :
                        MapHas(latestReleaseSet.m, benchmarks.Benchmarks[k].UniqueName)}

\* C21: the comparison with the latest release does not depend on the one with
\* the baseline: every configured benchmark with an entry in the result set of
\* HEAD and in the one of the latest release has a release ratio, with or
\* without an entry in the baseline set, and the release verdict is taken over
\* these ratios.
C21_ReleaseComparisonIndependent ==
    Compared =>
        /\ \A k \in AtHeadAndRelease :
                \E r \in 1..Len(ratiosWithRelease) :
                    ratiosWithRelease[r].Benchmark.UniqueName =
                        benchmarks.Benchmarks[k].UniqueName
        /\ ~latestReleaseSet.nil =>
                (regressionWithLatestVersion <=> Detected(ratiosWithRelease))

\* the position of the last reset before position k of the trace, 0 if none
LastResetBefore(k) ==
    LET before == {j \in 1..(k - 1) : trace[j].op \in {"reset", "restore"}}
    IN IF before = {} THEN 0 ELSE CHOOSE j \in before : \A h \in before : h <= j

\* C22: a benchmark run for a revision is made with the working copy at that
\* revision, the last hard reset before it being a successful one to that
\* revision; after a hard reset that failed nothing but the restoring reset
\* is done, no benchmark run, no reset to a later revision and no comparison,
\* and run() returns the error of the reset.
C22_BenchmarksAtCheckedOutRevision ==
    /\ \A k \in EventsOf("bench") :
            /\ LastResetBefore(k) # 0
            /\ trace[LastResetBefore(k)].op = "reset"
            /\ trace[LastResetBefore(k)].ok
            /\ trace[LastResetBefore(k)].rev = trace[k].rev
            /\ trace[k].at = trace[k].rev
    /\ \A k \in EventsOf("reset") :
            ~trace[k].ok =>
                /\ \A j \in (k + 1)..Len(trace) : trace[j].op = "restore"
                /\ pc \in {"deferred", "returned", "exited"}
                /\ runErr = "reset"
                /\ ~Compared
                /\ regression = FALSE /\ regressionWithLatestVersion = FALSE

\* the reset to HEAD failed after the benchmarks were run at the baseline and
\* at the latest release, and the process has exited with the error
C22_Witness ==
    /\ pc = "exited"
    /\ runErr = "reset"
    /\ exitStatus = ExitFatal
    /\ Len(InvokedAt(BaseRev)) = NumBenchmarks
    /\ InvokedAt(prevVersionTag) # <<>>
    /\ InvokedAt(HeadRev) = <<>>
    /\ \E k \in EventsOf("reset") : trace[k].rev = HeadRev /\ ~trace[k].ok

\* every reset of the run was made and succeeded: the last one, to HEAD, did
AllCheckoutsSucceeded ==
    /\ \A k \in EventsOf("reset") : trace[k].ok
    /\ \E k \in EventsOf("reset") : trace[k].rev = HeadRev

\* C23: a run whose resets all succeeded returns success or the regression
\* error, whichever benchmarks failed to run or to parse at whichever
\* revision; it returns the error only when a computed ratio of a selected
\* metric exceeds its threshold, and success when no ratio was computed.
C23_BenchmarkFailuresNotFatal ==
    (Finished /\ AllCheckoutsSucceeded) =>
        /\ Compared
        /\ runErr \in {"ok", "regression"}
        /\ runErr = "regression" => (Detected(ratios) \/ Detected(ratiosWithRelease))
        /\ (ratios = <<>> /\ ratiosWithRelease = <<>>) => runErr = "ok"
        /\ pc = "exited" => exitStatus = IF runErr = "ok" THEN 0 ELSE ExitFatal

\* every benchmark was measured at the baseline and at the latest release and
\* none at HEAD: no ratio was computed and the process exited with status 0
C23_Witness ==
    /\ pc = "exited"
    /\ AllCheckoutsSucceeded
    /\ Cardinality(prevSet.m) = NumBenchmarks
    /\ ~latestReleaseSet.nil
    /\ latestReleaseSet.m # {}
    /\ Len(InvokedAt(HeadRev)) = NumBenchmarks
    /\ headSet.m = {}
    /\ ratios = <<>>
    /\ ratiosWithRelease = <<>>
    /\ runErr = "ok"
    /\ exitStatus = 0

====
